---- MODULE Spec2Model ----
(***************************************************************************)
(* Model of src/src/thunder/main.py: the Thunder module's deploy and       *)
(* destroy operations against the remote pod API, and the effect of the    *)
(* shell scripts they return on the caller's key files, known_hosts and    *)
(* ~/.ssh/config.                                                          *)
(***************************************************************************)
EXTENDS Integers, Sequences, FiniteSets, TLC

\* ------------------------------------------------------------------ bounds

\* calls of deploy/destroy made one after the other in one behaviour
MaxCalls == 2
\* lines of the SSH config file the caller starts with
MaxLen == 3
\* scripts the caller replays against the local files
MaxOps == 3

\* ------------------------------------------------------- program constants

\* main.py:58  max_retries = 30
max_retries == 30
\* main.py:100 for i in $(seq 1 10)
scan_attempts == 10

\* ------------------------------------------------------------ input sets

Tokens == {"", "tok"}
GpuTypes == {"t4", "a100", "a100xl", "h100"}
PodIds == {"p1", "p2"}
Ports == {22, 2222}

\* host names as character sequences: "1.2", "1.22" (extends "1.2") and
\* "112" (differs from "1.2" only where the pattern has a dot)
H12 == <<"1", ".", "2">>
H122 == <<"1", ".", "2", "2">>
H112 == <<"1", "1", "2">>
HostNames == {H12, H122, H112}
NoHost == <<>>

\* ------------------------------------------------------ remote responses

\* What an exec of curl in the container gives back: the exec itself fails
\* (non-zero exit), or stdout is not JSON, or stdout is a JSON object.  An
\* absent field is "" / <<>> / 0, all of which Python's `not x` treats alike.
Resp(kind, id, h, p, st) ==
    [kind |-> kind, instance_id |-> id, host |-> h, port |-> p, status |-> st]

ExecFail == Resp("exec_fail", "", NoHost, 0, "")
Garbage == Resp("garbage", "", NoHost, 0, "")
NoResp == Resp("none", "", NoHost, 0, "")

CreateResponses ==
    {ExecFail, Garbage} \cup
    {Resp("json", id, h, p, "") : id \in PodIds \cup {""}, h \in {H12, H122}, p \in Ports \cup {0}}

Statuses == {"running", "pending", "error", ""}

\* the connection info a status response may carry: none, a host, or a host
\* and a port
StatusEndpoints == {<< NoHost, 0 >>, << H12, 0 >>, << H112, 2222 >>}

StatusResponses ==
    {ExecFail, Garbage} \cup
    {Resp("json", "", e[1], e[2], st) : e \in StatusEndpoints, st \in Statuses}

\* json.loads(raw) succeeds
Parses(resp) == resp.kind = "json"

\* ------------------------------------------------------------- scripts

\* One line (command) of a returned script.
Cmd(c, id, h, p, n) == [cmd |-> c, id |-> id, host |-> h, port |-> p, scan |-> n]

\* main.py:115-139  setup_instructions; n is the number of progress lines
\* ("Attempt i: Scanning host ...") that the scan wrote to stdout before the key.
SetupScript(id, h, p, n) ==
    << Cmd("mkdir_keys", id, h, p, n),
       Cmd("chmod_keys_dir", id, h, p, n),
       Cmd("write_key", id, h, p, n),
       Cmd("chmod_key", id, h, p, n),
       Cmd("ssh_agent", id, h, p, n),
       Cmd("ssh_add", id, h, p, n),
       Cmd("mkdir_ssh", id, h, p, n),
       Cmd("chmod_ssh", id, h, p, n),
       Cmd("write_known_tmp", id, h, p, n),
       Cmd("append_known", id, h, p, n),
       Cmd("rm_known_tmp", id, h, p, n),
       Cmd("chmod_known", id, h, p, n),
       Cmd("append_config", id, h, p, n),
       Cmd("chmod_config", id, h, p, n),
       Cmd("echo_export", id, h, p, n) >>

\* main.py:249-260  cleanup_instructions (the if/fi pair and the two comment
\* lines are folded into the two commands they guard)
CleanupScript(id, h) ==
    << Cmd("rm_key", id, h, 0, 0),
       Cmd("keygen_R", id, h, 0, 0),
       Cmd("awk_config", id, h, 0, 0),
       Cmd("mv_config", id, h, 0, 0) >>

NoScript == <<>>

\* ------------------------------------------------------------- variables

VARIABLES
    pc,            \* where the current call stands
    op,            \* "none" | "deploy" | "destroy"
    token,         \* argument of the current call
    gpu_type,      \* deploy's gpu_type after line 22-23
    instance_id,   \* deploy: from the create response; destroy: the argument
    host,          \* deploy: from the create response; destroy: from the lookup
    port,          \* deploy: from the create response
    retry_count,   \* deploy's loop counter
    status_data,   \* the last status response parsed (deploy) / looked up (destroy)
    calls,         \* requests issued by the current call, per kind
    firstRunning,  \* index of the status call that first answered running, 0 if none
    result,        \* the script returned, NoScript if none
    err,           \* why the call raised, "" if it did not
    pods,          \* ids of the pods that exist on the remote service
    nCalls,        \* calls started so far
    delete_body,   \* what the delete request answered (destroy discards it)
    fs,            \* the caller's local files
    trace          \* scripts the caller has replayed, with the config before each

lifeVars == << pc, op, token, gpu_type, instance_id, host, port, retry_count,
               status_data, calls, firstRunning, result, err, pods, nCalls,
               delete_body >>
shellVars == << fs, trace >>
vars == << pc, op, token, gpu_type, instance_id, host, port, retry_count,
           status_data, calls, firstRunning, result, err, pods, nCalls,
           delete_body, fs, trace >>

\* scan counts ssh-keyscan attempts, keys the host keys they obtained
NoCalls == [create |-> 0, status |-> 0, scan |-> 0, keys |-> 0, delete |-> 0]

Issue(kind) == [calls EXCEPT ![kind] = @ + 1]

EmptyFs ==
    [keyFiles |-> {}, knownHosts |-> <<>>, knownTmp |-> <<>>,
     config |-> <<>>, configExists |-> FALSE, configTmp |-> <<>>]

\* ---------------------------------------------------------------- deploy

\* main.py:22-23
NormalizeGpu(g) == IF g \in {"t4", "a100", "a100xl"} THEN g ELSE "t4"

\* a call runs to completion before the next one starts (spec section 5)
CanCall == pc \in {"idle", "returned", "raised"} /\ nCalls < MaxCalls

\* raise RuntimeError(...) / ValueError(...): the call ends with no script
Raise(e) ==
    /\ pc' = "raised"
    /\ err' = e
    /\ result' = NoScript

\* the loop condition off by one: a 31st turn
PollAgainOffByOne(rc) == rc <= max_retries

\* the loop condition one short: gives up after 29 turns
PollAgainOneShort(rc) == rc < max_retries - 1

\* main.py:67  while retry_count < max_retries
PollAgain(rc) == rc < max_retries

\* the readiness test taking anything but pending as ready
IsRunningNotPending(st) == st # "pending"

\* main.py:85  if status == "running"
IsRunning(st) == st = "running"

\* main.py:20-30  entry of deploy: no check of token, gpu_type defaulted
DeployCall(tok, g) ==
    /\ CanCall
    /\ nCalls' = nCalls + 1
    /\ op' = "deploy"
    /\ token' = tok
    /\ gpu_type' = NormalizeGpu(g)
    /\ pc' = "d_create"
    /\ instance_id' = ""
    /\ host' = NoHost
    /\ port' = 0
    /\ retry_count' = 0
    /\ status_data' = NoResp
    /\ calls' = NoCalls
    /\ firstRunning' = 0
    /\ result' = NoScript
    /\ err' = ""
    /\ delete_body' = NoResp
    /\ UNCHANGED << pods, fs, trace >>

\* main.py:33-59  POST /pods/{gpu_type}/1, parse, check instance_id and port
DeployCreate(resp) ==
    /\ pc = "d_create"
    /\ resp.instance_id \notin pods
    /\ calls' = Issue("create")
    /\ pods' = IF Parses(resp) /\ resp.instance_id # "" THEN pods \cup {resp.instance_id} ELSE pods
    /\ IF resp.kind = "exec_fail"
         THEN Raise("create_exec") /\ UNCHANGED << instance_id, host, port >>
       ELSE IF ~Parses(resp)
         THEN Raise("create_parse") /\ UNCHANGED << instance_id, host, port >>
       ELSE /\ instance_id' = resp.instance_id
            /\ host' = resp.host
            /\ port' = resp.port
            /\ IF resp.instance_id = "" THEN Raise("no_instance_id")
               ELSE IF resp.port = 0 THEN Raise("no_port")
               ELSE pc' = "d_poll" /\ UNCHANGED << result, err >>
    /\ UNCHANGED << op, token, gpu_type, retry_count, status_data, firstRunning,
                    nCalls, delete_body, fs, trace >>

\* main.py:67-85,143  one turn of the loop: GET /pods/{id}, parse, test status
DeployPoll(resp) ==
    /\ pc = "d_poll"
    /\ PollAgain(retry_count)
    /\ calls' = Issue("status")
    /\ firstRunning' = IF firstRunning = 0 /\ Parses(resp) /\ resp.status = "running"
                         THEN calls.status + 1 ELSE firstRunning
    /\ IF resp.kind = "exec_fail"
         THEN Raise("status_exec") /\ UNCHANGED << status_data, retry_count >>
       ELSE IF ~Parses(resp)
         THEN Raise("status_parse") /\ UNCHANGED << status_data, retry_count >>
       ELSE /\ status_data' = resp
            /\ IF IsRunning(resp.status)
                 THEN pc' = "d_scan" /\ UNCHANGED << retry_count, result, err >>
                 ELSE /\ retry_count' = retry_count + 1
                      /\ UNCHANGED << pc, result, err >>
    /\ UNCHANGED << op, token, gpu_type, instance_id, host, port, pods, nCalls,
                    delete_body, fs, trace >>

\* a timeout that tears the pod down before raising
DeployTimeoutDeletesPod ==
    /\ pc = "d_poll"
    /\ ~PollAgain(retry_count)
    /\ Raise("timeout")
    /\ calls' = Issue("delete")
    /\ pods' = pods \ {instance_id}
    /\ UNCHANGED << op, token, gpu_type, instance_id, host, port, retry_count,
                    status_data, firstRunning, nCalls, delete_body, fs, trace >>

\* main.py:145  the loop ran out: raise "Timed out waiting ..."
DeployTimeout ==
    /\ pc = "d_poll"
    /\ ~PollAgain(retry_count)
    /\ Raise("timeout")
    /\ UNCHANGED << op, token, gpu_type, instance_id, host, port, retry_count,
                    status_data, calls, firstRunning, pods, nCalls, delete_body,
                    fs, trace >>

\* main.py:91-112  the ssh-keyscan loop run in one exec: the key is obtained on
\* attempt `tries` (stdout: one progress line per attempt, then the key), or
\* every attempt fails and the exec exits 1.
ScanOutcomes ==
    {[ok |-> TRUE, tries |-> i] : i \in 1..scan_attempts} \cup
    {[ok |-> FALSE, tries |-> scan_attempts]}

\* the scan step without its `exit 1`: the exec succeeds with no key and
\* deploy builds the script all the same
DeployScanFailureIgnored(out) ==
    /\ pc = "d_scan"
    /\ calls' = [calls EXCEPT !.scan = out.tries, !.keys = IF out.ok THEN 1 ELSE 0]
    /\ pc' = "returned"
    /\ result' = SetupScript(instance_id, host, port, out.tries)
    /\ UNCHANGED << err, op, token, gpu_type, instance_id, host, port, retry_count,
                    status_data, firstRunning, pods, nCalls, delete_body, fs, trace >>

\* main.py:86-141  scan the host key, build and return the setup instructions
DeployScan(out) ==
    /\ pc = "d_scan"
    /\ calls' = [calls EXCEPT !.scan = out.tries, !.keys = IF out.ok THEN 1 ELSE 0]
    /\ IF out.ok
         THEN /\ pc' = "returned"
              /\ result' = SetupScript(instance_id, host, port, out.tries)
              /\ UNCHANGED err
         ELSE Raise("scan_failed")
    /\ UNCHANGED << op, token, gpu_type, instance_id, host, port, retry_count,
                    status_data, firstRunning, pods, nCalls, delete_body, fs, trace >>

\* --------------------------------------------------------------- destroy

\* the validation with the instance id check left out
DestroyArgsValidTokenOnly(tok, id) == tok # ""

\* main.py:202-205  if not token / if not instance_id: raise ValueError
DestroyArgsValid(tok, id) == tok # "" /\ id # ""

\* main.py:196-212  entry of destroy
DestroyCall(tok, id) ==
    /\ CanCall
    /\ nCalls' = nCalls + 1
    /\ op' = "destroy"
    /\ token' = tok
    /\ instance_id' = id
    /\ gpu_type' = ""
    /\ host' = NoHost
    /\ port' = 0
    /\ retry_count' = 0
    /\ status_data' = NoResp
    /\ calls' = NoCalls
    /\ firstRunning' = 0
    /\ delete_body' = NoResp
    /\ IF DestroyArgsValid(tok, id)
         THEN pc' = "x_lookup" /\ result' = NoScript /\ err' = ""
         ELSE Raise("validation")
    /\ UNCHANGED << pods, fs, trace >>

\* main.py:214-230  GET /pods/{id}, parse, host = status_data.get('host', '')
DestroyLookup(resp) ==
    /\ pc = "x_lookup"
    /\ calls' = Issue("status")
    /\ IF resp.kind = "exec_fail"
         THEN Raise("lookup_exec") /\ UNCHANGED << status_data, host >>
       ELSE IF ~Parses(resp)
         THEN Raise("lookup_parse") /\ UNCHANGED << status_data, host >>
       ELSE /\ status_data' = resp
            /\ host' = resp.host
            /\ pc' = "x_delete"
            /\ UNCHANGED << result, err >>
    /\ UNCHANGED << op, token, gpu_type, instance_id, port, retry_count,
                    firstRunning, pods, nCalls, delete_body, fs, trace >>

\* what DELETE /pods/{id} can answer: the exec fails, or it succeeds with an
\* empty body, or it succeeds with some body
DeleteResponses == {ExecFail, Resp("empty", "", NoHost, 0, ""), Garbage}

\* a delete whose failure is swallowed: the cleanup script is returned anyway
DestroyDeleteErrorSwallowed(resp) ==
    /\ pc = "x_delete"
    /\ calls' = Issue("delete")
    /\ delete_body' = resp
    /\ pods' = IF resp.kind = "empty" THEN pods \ {instance_id} ELSE pods
    /\ pc' = "returned"
    /\ result' = CleanupScript(instance_id, host)
    /\ UNCHANGED << err, op, token, gpu_type, instance_id, host, port, retry_count,
                    status_data, firstRunning, nCalls, fs, trace >>

\* main.py:232-262  DELETE /pods/{id} (.sync(): the body is not read), then
\* build and return the cleanup instructions
DestroyDelete(resp) ==
    /\ pc = "x_delete"
    /\ calls' = Issue("delete")
    /\ delete_body' = resp
    /\ pods' = IF resp.kind = "empty" THEN pods \ {instance_id} ELSE pods
    /\ IF resp.kind = "exec_fail"
         THEN Raise("delete_exec")
         ELSE /\ pc' = "returned"
              /\ result' = CleanupScript(instance_id, host)
              /\ UNCHANGED err
    /\ UNCHANGED << op, token, gpu_type, instance_id, host, port, retry_count,
                    status_data, firstRunning, nCalls, fs, trace >>


\* ------------------------------------------------- the caller's local files

\* A line of ~/.ssh/config: a "Host <name>" header at column 0, an indented
\* option line "    <key> <arg>", or an empty line.
Line(kind, name, key, arg) == [kind |-> kind, name |-> name, key |-> key, arg |-> arg]
HostLine(h) == Line("host", h, "", "")
OptLine(k, a) == Line("opt", NoHost, k, a)
Blank == Line("blank", NoHost, "", "")

\* str(port) as the f-string renders it
PortStr(p) == CASE p = 22 -> "22" [] p = 2222 -> "2222" [] OTHER -> "0"

\* main.py:130-136  the heredoc appended to ~/.ssh/config: an empty line (the
\* "\n" before Host), the block, and the empty line before EOF
HostBlock(id, h, p) ==
    << Blank,
       HostLine(h),
       OptLine("User", "root"),
       OptLine("Port", PortStr(p)),
       OptLine("IdentityFile", id),
       Blank >>

\* a character of an awk regular expression against a character of the line
CharMatches(pch, ch) == pch = "." \/ pch = ch

\* main.py:256  /^Host {host}/ : the line starts with "Host " followed by
\* text the pattern {host} matches (unanchored at its end)
MatchesHostPattern(l, h) ==
    /\ l.kind = "host"
    /\ Len(h) <= Len(l.name)
    /\ \A i \in 1..Len(h) : CharMatches(h[i], l.name[i])

\* main.py:256  /^$/
IsEmptyLine(l) == l.kind = "blank"

\* main.py:256  the awk program, line by line, from skip flag `skip`:
\*   /^Host h/ {skip=1;next}
\*   /^$/      {if (skip) {skip=0;next} else print}
\*   !skip     {print}
RECURSIVE Awk(_, _, _)
Awk(lines, h, skip) ==
    IF lines = <<>> THEN <<>>
    ELSE LET l == Head(lines)
             rest == Tail(lines)
         IN  IF MatchesHostPattern(l, h) THEN Awk(rest, h, TRUE)
             ELSE IF IsEmptyLine(l)
               THEN IF skip THEN Awk(rest, h, FALSE)
                    ELSE << l, l >> \o Awk(rest, h, FALSE)
             ELSE IF ~skip THEN << l >> \o Awk(rest, h, skip)
             ELSE Awk(rest, h, skip)

AwkFilter(lines, h) == Awk(lines, h, FALSE)

\* A line of known_hosts: the host pattern it is keyed by (plain "host" or
\* "[host]:port"; ssh-keyscan -H hashes that same name) and what follows it.
KnownLine(bracket, h, p, text) ==
    [bracket |-> bracket, host |-> h, port |-> p, text |-> text]

\* the name ssh-keyscan -p port host writes: "host" for port 22, else "[host]:port"
KeyscanLine(h, p) == KnownLine(p # 22, h, IF p = 22 THEN 0 ELSE p, "key")

\* main.py:100-104  stdout of the scan that got the key on attempt n: a
\* progress line per attempt, then ssh-keyscan's own line
RECURSIVE ProgressLines(_, _)
ProgressLines(from, n) ==
    IF from > n THEN <<>>
    ELSE << KnownLine(FALSE, NoHost, 0, "progress") >> \o ProgressLines(from + 1, n)

\* main.py:125  "[{host}]:{port} {host_key}": the prefix lands on the first
\* line of host_key, the other lines of host_key follow as they are
KnownHostsText(h, p, n) ==
    << KnownLine(TRUE, h, p, "progress") >> \o ProgressLines(2, n) \o << KeyscanLine(h, p) >>

\* ssh-keygen -R host: drops the lines keyed by the plain name `host`; with no
\* host the command fails and || true hides it
RECURSIVE KeygenRemove(_, _)
KeygenRemove(known, h) ==
    IF known = <<>> \/ h = NoHost THEN known
    ELSE LET k == Head(known)
         IN  IF ~k.bracket /\ k.text = "key" /\ k.host = h
               THEN KeygenRemove(Tail(known), h)
               ELSE << k >> \o KeygenRemove(Tail(known), h)

\* the effect of one script line on the local files
Exec(c, f) ==
    CASE c.cmd = "write_key" -> [f EXCEPT !.keyFiles = @ \cup {c.id}]
      [] c.cmd = "write_known_tmp" -> [f EXCEPT !.knownTmp = KnownHostsText(c.host, c.port, c.scan)]
      [] c.cmd = "append_known" -> [f EXCEPT !.knownHosts = @ \o f.knownTmp]
      [] c.cmd = "rm_known_tmp" -> [f EXCEPT !.knownTmp = <<>>]
      [] c.cmd = "append_config" ->
            [f EXCEPT !.config = @ \o HostBlock(c.id, c.host, c.port), !.configExists = TRUE]
      [] c.cmd = "rm_key" -> [f EXCEPT !.keyFiles = @ \ {c.id}]
      [] c.cmd = "keygen_R" -> [f EXCEPT !.knownHosts = KeygenRemove(@, c.host)]
      [] c.cmd = "awk_config" ->
            IF f.configExists THEN [f EXCEPT !.configTmp = AwkFilter(f.config, c.host)] ELSE f
      [] c.cmd = "mv_config" ->
            IF f.configExists THEN [f EXCEPT !.config = f.configTmp, !.configTmp = <<>>] ELSE f
      [] OTHER -> f

\* the caller runs a returned script from its first line to its last
RECURSIVE RunScript(_, _)
RunScript(script, f) ==
    IF script = <<>> THEN f ELSE RunScript(Tail(script), Exec(Head(script), f))

\* the scripts the caller replays: those deploy and destroy can return
ShellIds == {"p1"}
ShellHosts == {H12, H122}
ShellScans == {1}

TraceEntry(o, id, h, p, before) ==
    [op |-> o, id |-> id, host |-> h, port |-> p, before |-> before]

\* the caller runs the text deploy returned (main.py:141)
RunSetup(id, h, p, n) ==
    /\ Len(trace) < MaxOps
    /\ fs' = RunScript(SetupScript(id, h, p, n), fs)
    /\ trace' = Append(trace, TraceEntry("setup", id, h, p, fs.config))
    /\ UNCHANGED lifeVars

\* the caller runs the text destroy returned (main.py:262)
RunCleanup(id, h) ==
    /\ Len(trace) < MaxOps
    /\ fs' = RunScript(CleanupScript(id, h), fs)
    /\ trace' = Append(trace, TraceEntry("cleanup", id, h, 0, fs.config))
    /\ UNCHANGED lifeVars

\* how many lines of its output a failing awk has written to config.tmp when
\* it stops: none, or all but the last
AwkFaults(full) == {k \in {0, Len(full) - 1} : k >= 0 /\ k < Len(full)}

\* a script line run while awk fails after `k` lines of output: the
\* redirection has created config.tmp, which holds what was written
ExecAwkFails(c, f, k) ==
    IF c.cmd = "awk_config" /\ f.configExists
      THEN [f EXCEPT !.configTmp = SubSeq(AwkFilter(f.config, c.host), 1, k)]
      ELSE Exec(c, f)

\* the script's lines are separated by newlines, with no `&&` and no
\* `set -e` (main.py:249-262): the line after a failed one still runs
RECURSIVE RunScriptAwkFails(_, _, _)
RunScriptAwkFails(script, f, k) ==
    IF script = <<>> THEN f
    ELSE RunScriptAwkFails(Tail(script), ExecAwkFails(Head(script), f, k), k)

\* the caller runs the text destroy returned and the awk step fails part way
RunCleanupAwkFails(id, h, k) ==
    /\ Len(trace) < MaxOps
    /\ fs.configExists
    /\ k \in AwkFaults(AwkFilter(fs.config, h))
    /\ fs' = RunScriptAwkFails(CleanupScript(id, h), fs, k)
    /\ trace' = Append(trace, TraceEntry("cleanup_awk_fails", id, h, 0, fs.config))
    /\ UNCHANGED lifeVars

\* ---------------------------------------------------------- specifications

RECURSIVE SeqsUpTo(_, _)
SeqsUpTo(S, n) ==
    IF n = 0 THEN {<<>>}
    ELSE LET shorter == SeqsUpTo(S, n - 1)
         IN  shorter \cup {Append(q, x) : q \in shorter, x \in S}

ConfigLines == {HostLine(h) : h \in HostNames} \cup {OptLine("User", "root"), Blank}

LifeInit ==
    /\ pc = "idle"
    /\ op = "none"
    /\ token = ""
    /\ gpu_type = ""
    /\ instance_id = ""
    /\ host = NoHost
    /\ port = 0
    /\ retry_count = 0
    /\ status_data = NoResp
    /\ calls = NoCalls
    /\ firstRunning = 0
    /\ result = NoScript
    /\ err = ""
    /\ pods = {}
    /\ nCalls = 0
    /\ delete_body = NoResp

\* the calls of the module against the remote service
Init ==
    /\ LifeInit
    /\ fs = EmptyFs
    /\ trace = <<>>

Next ==
    \/ \E tok \in Tokens, g \in GpuTypes : DeployCall(tok, g)
    \/ \E resp \in CreateResponses : DeployCreate(resp)
    \/ \E resp \in StatusResponses : DeployPoll(resp)
    \/ DeployTimeout
    \/ \E out \in ScanOutcomes : DeployScan(out)
    \/ \E tok \in Tokens, id \in PodIds \cup {""} : DestroyCall(tok, id)
    \/ \E resp \in StatusResponses : DestroyLookup(resp)
    \/ \E resp \in DeleteResponses : DestroyDelete(resp)

Spec == Init /\ [][Next]_vars

\* the returned scripts replayed against the caller's files
ShellInit ==
    /\ LifeInit
    /\ \/ fs = EmptyFs
       \/ \E c \in SeqsUpTo(ConfigLines, MaxLen) :
            fs = [EmptyFs EXCEPT !.config = c, !.configExists = TRUE]
    /\ trace = <<>>

ShellNext ==
    \/ \E id \in ShellIds, h \in ShellHosts, p \in Ports, n \in ShellScans : RunSetup(id, h, p, n)
    \/ \E id \in ShellIds, h \in ShellHosts \cup {NoHost} : RunCleanup(id, h)
    \/ \E id \in ShellIds, h \in ShellHosts \cup {NoHost}, k \in 0..(MaxLen + 6 * MaxOps) :
          RunCleanupAwkFails(id, h, k)

ShellSpec == ShellInit /\ [][ShellNext]_vars

\* the calls of the module, where an awaited request always answers and the
\* event loop then resumes the coroutine (the sequential flow of one call)
FairSpec ==
    /\ Spec
    /\ WF_vars(\E resp \in StatusResponses : DeployPoll(resp))
    /\ WF_vars(DeployTimeout)

\* ------------------------------------------------------------------ claims

InWait == op = "deploy" /\ pc = "d_poll"

\* C1: if the status source first answers running on the Nth status call,
\* N <= max_retries, the wait succeeds with exactly N status calls issued: the
\* Nth is the last one, and every call before it was counted as one turn.
C1_ExactlyNCalls ==
    (op = "deploy" /\ firstRunning # 0) =>
        /\ firstRunning <= max_retries
        /\ calls.status = firstRunning
        /\ retry_count = firstRunning - 1
        /\ pc \in {"d_scan", "returned", "raised"}
        /\ pc = "raised" => err = "scan_failed"

C1_Witness ==
    /\ op = "deploy"
    /\ firstRunning = max_retries
    /\ calls.status = max_retries
    /\ pc = "returned"

\* C2: if the status source never answers running, the wait ends: never more
\* than max_retries status calls, a timeout only after exactly max_retries of
\* them, none of which answered running, and a wait in progress always leaves
\* the polling state.
C2_Bounded ==
    /\ calls.status <= max_retries
    /\ InWait => calls.status = retry_count
    /\ (op = "deploy" /\ err = "timeout") =>
          /\ calls.status = max_retries
          /\ firstRunning = 0
          /\ pc = "raised"
          /\ result = NoScript

C2_TimeoutAfterMax == [] C2_Bounded /\ (InWait ~> ~InWait)

C2_Witness ==
    /\ op = "deploy"
    /\ err = "timeout"
    /\ calls.status = max_retries
    /\ status_data.status = "pending"

\* C3: deploy returns a setup script only if a status call of that execution
\* answered running for the pod; on every other path it returns no script.
C3_ScriptOnlyIfRunning ==
    op = "deploy" =>
        /\ result # NoScript =>
              /\ firstRunning # 0
              /\ status_data.status = "running"
              /\ pc = "returned"
              /\ result = SetupScript(instance_id, host, port, calls.scan)
        /\ pc = "raised" => result = NoScript
        /\ pc = "returned" => result # NoScript

C3_Witness ==
    /\ op = "deploy"
    /\ pc = "returned"
    /\ result # NoScript
    /\ firstRunning > 1

\* C4: when a status call of deploy's polling reports the status error, deploy
\* fails at that poll and issues no further status call.
C4_ErrorStatusPropagates ==
    (op = "deploy" /\ status_data.status = "error") => pc = "raised"

\* C5: deploy called with an empty token fails with a validation error before
\* any network call (create, status, host-key scan).
C5_EmptyTokenNoNetwork ==
    (op = "deploy" /\ token = "") =>
        /\ calls = NoCalls
        /\ pc = "raised" => err = "validation"
        /\ pc # "returned"

\* C6: for a non-empty token and instance id, destroy issues the delete call
\* even when its status lookup errors or answers something unparseable; it
\* does not end because of the lookup.
C6_DestroyProceeds ==
    (op = "destroy" /\ DestroyArgsValid(token, instance_id) /\ pc \in {"returned", "raised"}) =>
        /\ calls.delete = 1
        /\ err \notin {"lookup_exec", "lookup_parse"}

\* C7: when the status lookup answers without a host field, destroy still
\* issues the delete call and returns a cleanup script made of the key-file
\* removal line only.
C7_NoHostOnlyKeyRemoval ==
    (op = "destroy" /\ pc = "returned" /\ status_data.host = NoHost) =>
        /\ calls.delete = 1
        /\ result = << Cmd("rm_key", instance_id, NoHost, 0, 0) >>

\* trailing empty lines dropped
RECURSIVE StripTrailing(_)
StripTrailing(lines) ==
    IF lines # <<>> /\ lines[Len(lines)].kind = "blank"
      THEN StripTrailing(SubSeq(lines, 1, Len(lines) - 1))
      ELSE lines

LastOp == trace[Len(trace)]
PrevOp == trace[Len(trace) - 1]

\* C8: setup for a host followed by cleanup for the same host leaves the SSH
\* config as it was before the setup, up to trailing empty lines.
C8_RoundTrip ==
    (Len(trace) >= 2 /\ PrevOp.op = "setup" /\ LastOp.op = "cleanup"
        /\ LastOp.host = PrevOp.host /\ LastOp.id = PrevOp.id) =>
        StripTrailing(fs.config) = StripTrailing(PrevOp.before)

\* the "Host h" headers of a config
HeaderCount(lines, h) == Cardinality({i \in 1..Len(lines) : lines[i] = HostLine(h)})

\* C9: the setup script applied twice for the same pod id and host leaves
\* exactly one block for that host in the SSH config.
C9_NoDuplicateBlocks ==
    (Len(trace) >= 2 /\ PrevOp.op = "setup" /\ LastOp.op = "setup"
        /\ LastOp.host = PrevOp.host /\ LastOp.id = PrevOp.id /\ LastOp.port = PrevOp.port
        /\ HeaderCount(PrevOp.before, PrevOp.host) = 0) =>
        HeaderCount(fs.config, LastOp.host) = 1

\* what the claim describes: the blocks headed exactly "Host h" removed, header
\* through terminating empty line, every other line kept once and in order
RECURSIVE RemoveHostBlock(_, _, _)
RemoveHostBlock(lines, h, inBlock) ==
    IF lines = <<>> THEN <<>>
    ELSE LET l == Head(lines)
             rest == Tail(lines)
         IN  IF l = HostLine(h) THEN RemoveHostBlock(rest, h, TRUE)
             ELSE IF inBlock /\ l.kind = "blank" THEN RemoveHostBlock(rest, h, FALSE)
             ELSE IF inBlock /\ l.kind = "opt" THEN RemoveHostBlock(rest, h, TRUE)
             ELSE << l >> \o RemoveHostBlock(rest, h, FALSE)

\* C10: the cleanup script's edit of the SSH config deletes the block of the
\* destroyed pod's host only: the lines of every other block, those of a host
\* whose name starts with the destroyed host's name and the empty lines
\* between blocks included, are kept once and in order.
C10_OnlyThatBlock ==
    (Len(trace) >= 1 /\ LastOp.op = "cleanup" /\ LastOp.host # NoHost) =>
        fs.config = RemoveHostBlock(LastOp.before, LastOp.host, FALSE)

\* C11: a body that is not empty in the answer of an otherwise successful
\* delete call is an error: destroy fails and returns no cleanup script.
C11_DeleteBodyIsError ==
    (op = "destroy" /\ delete_body.kind \notin {"none", "empty", "exec_fail"}) =>
        /\ pc = "raised"
        /\ result = NoScript

\* C12: the host and port of the setup script (host-key scan, known_hosts
\* line, SSH config block, runner-host export) are those embedded in the
\* status response that answered running.
C12_ConnectionInfoFromRunning ==
    (op = "deploy" /\ pc = "returned") =>
        \A i \in 1..Len(result) :
            /\ status_data.host # NoHost => result[i].host = status_data.host
            /\ status_data.port # 0 => result[i].port = status_data.port

\* C13: a status response that cannot be parsed during one of deploy's polling
\* attempts fails that attempt only: while attempts remain the wait goes on, so
\* deploy never ends on a parse failure with attempts left.
C13_ParseFailureKeepsPolling ==
    (op = "deploy" /\ pc = "raised" /\ calls.status < max_retries) =>
        err # "status_parse"

\* C14: destroy called with an empty token or an empty instance id fails with
\* a validation error before any network call: no status request, no delete
\* request, no script.
C14_DestroyValidatesFirst ==
    (op = "destroy" /\ (token = "" \/ instance_id = "")) =>
        /\ pc = "raised"
        /\ err = "validation"
        /\ calls = NoCalls
        /\ result = NoScript
        /\ delete_body = NoResp

C14_Witness ==
    /\ op = "destroy"
    /\ token = "tok"
    /\ instance_id = ""
    /\ pc = "raised"
    /\ err = "validation"
    /\ pods # {}

SetupThenCleanup ==
    /\ Len(trace) >= 2
    /\ PrevOp.op = "setup"
    /\ LastOp.op = "cleanup"
    /\ LastOp.host = PrevOp.host
    /\ LastOp.id = PrevOp.id

\* C15: each local artifact the setup script adds for a pod (the key file
\* keyed by pod id, the known_hosts entry keyed [host]:port, the SSH config
\* block of the host) is removed by the cleanup script for the same pod id and
\* host: after setup then cleanup none of them remains.
C15_SetupHasInverse ==
    SetupThenCleanup =>
        /\ LastOp.id \notin fs.keyFiles
        /\ \A i \in 1..Len(fs.knownHosts) :
              ~(fs.knownHosts[i].bracket /\ fs.knownHosts[i].host = PrevOp.host
                  /\ fs.knownHosts[i].port = PrevOp.port)
        /\ HeaderCount(fs.config, LastOp.host) = 0

\* C16: what the setup script appends to known_hosts is key lines only: no
\* other text of the scan step (its per-attempt progress output) is in them.
C16_KnownHostsKeyLinesOnly ==
    (Len(trace) >= 1 /\ LastOp.op = "setup") =>
        \A i \in 1..Len(fs.knownHosts) : fs.knownHosts[i].text = "key"

\* C17: the host-key scan after a running status makes at most scan_attempts
\* attempts, and when none yields a key deploy fails and returns no setup
\* script.
C17_ScanBoundedAndFatal ==
    op = "deploy" =>
        /\ calls.scan <= scan_attempts
        /\ calls.scan > 0 => firstRunning # 0
        /\ (calls.scan > 0 /\ calls.keys = 0) =>
              /\ calls.scan = scan_attempts
              /\ pc = "raised"
              /\ err = "scan_failed"
              /\ result = NoScript
        /\ pc = "returned" => (calls.keys = 1 /\ calls.scan \in 1..scan_attempts)

C17_Witness ==
    /\ op = "deploy"
    /\ pc = "raised"
    /\ err = "scan_failed"
    /\ calls.scan = scan_attempts
    /\ calls.keys = 0
    /\ firstRunning > 1

\* C18: in every run of the cleanup script, runs where the filtering step
\* fails or writes only part of its output included, ~/.ssh/config is left
\* unchanged or replaced by the complete filtered content.
C18_ConfigNeverTruncated ==
    (Len(trace) >= 1 /\ LastOp.op \in {"cleanup", "cleanup_awk_fails"}) =>
        \/ fs.config = LastOp.before
        \/ fs.config = AwkFilter(LastOp.before, LastOp.host)

C20_PodLeft ==
    op = "deploy" =>
        /\ calls.delete = 0
        /\ instance_id # "" => instance_id \in pods

\* C20: deploy never issues a delete request: on every failure path after a
\* successful create the pod it created still exists on the remote service,
\* and a pod leaves the service only at the delete request of a destroy call.
C20_DeployNeverDeletes ==
    /\ [] C20_PodLeft
    /\ [][ (pods \ pods' # {}) =>
              (op = "destroy" /\ pc = "x_delete" /\ calls'.delete = calls.delete + 1) ]_vars

C20_Witness ==
    /\ op = "deploy"
    /\ pc = "raised"
    /\ err = "scan_failed"
    /\ calls.create = 1
    /\ instance_id \in pods

====
